---- MODULE Spec2Model ----
(***************************************************************************)
(* kaudit/k8s_client: the resource query facades (Pod, Service,            *)
(* Deployment, Namespace) with their validation and pagination loop, and   *)
(* the client composition root with its two connection strategies.         *)
(*                                                                         *)
(* Spec     : one facade call at a time against a transport that answers   *)
(*            each request with a page, a cursor or an error of its own    *)
(*            choice.                                                      *)
(* SpecLive : Spec with a caller that keeps running its pagination loop.    *)
(* SpecRoot : option application on a composition root, through            *)
(*            NewK8sClient or by a caller that holds the root itself.      *)
(* SpecLoader : Load calls of kubeconfig loaders on the paths of a file    *)
(*            system.                                                      *)
(* SpecConc : two callers in get and list calls on the same facade at the  *)
(*            same time, their transport calls interleaved.                *)
(* SpecStore : calls one after the other against a transport that answers  *)
(*            from a backing data set.                                     *)
(* SpecEndless : a list call against a transport that returns a cursor on  *)
(*            every page.                                                  *)
(***************************************************************************)
EXTENDS Integers, Sequences, FiniteSets, TLC

VARIABLES
    pc,        \* position of the facade call: "idle", "loop", "done"
    call,      \* arguments of the call in progress
    opts,      \* metav1.ListOptions of the call in progress
    result,    \* the accumulator of loopForResult
    ret,       \* what the call returned to its caller
    calls,     \* requests the transport has received, in order
    served,    \* responses the transport has given, in order
    ctx,       \* the caller's context: cancelled or not, and the requests sent before
    rootPc,    \* position of the composition: "start", "applying", "done"
    mode,      \* "new": NewK8sClient drives the options; "direct": the caller does
    options,   \* the options handed to NewK8sClient
    idx,       \* number of options NewK8sClient has gone past
    client,    \* the K8sClient struct: its four facade slots
    handles,   \* client handles produced so far: handles[h] is the strategy that built h
    applied,   \* option invocations, in order, with their outcome
    stages,    \* per applied option, the connection strategy stages it ran, in order
    newRet,    \* what NewK8sClient returned to its caller
    loads,     \* the Load calls made on credential loaders, in order, with their outcome
    conc,      \* per concurrent caller of one facade, the locals of its call
    store,     \* the backing data set of the transport: the resources it holds, in order
    cur,       \* the locals of the call in progress against the backing data set
    history    \* the calls made against the backing data set, with what they returned

facadeVars == <<pc, call, opts, result, ret, calls, served, ctx>>
rootVars == <<rootPc, mode, options, idx, client, handles, applied, stages, newRet>>
loaderVars == <<loads>>
vars == <<pc, call, opts, result, ret, calls, served, ctx,
          rootPc, mode, options, idx, client, handles, applied, stages, newRet,
          loads, conc, store, cur, history>>

\* what the actions of one component leave alone
storeVars == <<store, cur, history>>
notFacadeVars == <<rootVars, loaderVars, conc, storeVars>>
notRootVars == <<facadeVars, loaderVars, conc, storeVars>>
notLoaderVars == <<facadeVars, rootVars, conc, storeVars>>
notConcVars == <<facadeVars, rootVars, loaderVars, storeVars>>
notStoreVars == <<facadeVars, rootVars, loaderVars, conc>>

(***************************************************************************)
(* Bounds of the model.                                                    *)
(***************************************************************************)
MaxPages == 3
MaxOptions == 3
MaxLoads == 3
MaxConcPages == 2
MaxCalls == 3
MaxEndlessPages == 3

(***************************************************************************)
(* Input domains.                                                          *)
(***************************************************************************)
Kinds == {"pod", "service", "deployment", "namespace"}
SelKinds == {"label", "field"}
Namespaces == {"", "test-namespace"}
Names == {"", "test-name"}
\* durations in milliseconds
Timeouts == {0, 500, 1000, 1500}
Limits == {-1, 0, 1, 2}
Selectors == {"", "app=test-app", "invalid@sel"}
Items == {"a", "b"}
Cursors == {"c1", "c2"}
TransportErrs == {"connection refused", "context canceled"}

\* the pages a transport may return: empty, one item, two items
Pages == {<<>>, <<"a">>, <<"b", "a">>}

(***************************************************************************)
(* Errors: a prefix added by the facade, its arguments, and the cause it   *)
(* wraps.  NoErr is Go's nil error.                                        *)
(***************************************************************************)
NoErr == [prefix |-> "", args |-> <<>>, cause |-> ""]
Err(p, a, c) == [prefix |-> p, args |-> a, cause |-> c]

\* a Go slice: nil, or a sequence of records
NilSlice == [isNil |-> TRUE, items |-> <<>>]
Slice(s) == [isNil |-> FALSE, items |-> s]

Namespaced(kind) == kind /= "namespace"

KindPlural(kind) ==
    CASE kind = "pod" -> "pods"
      [] kind = "service" -> "services"
      [] kind = "deployment" -> "deployments"
      [] OTHER -> "namespaces"

(***************************************************************************)
(* val.ValidateWithTag: the tag that fails, or "" when the value passes.   *)
(***************************************************************************)
\* the selector grammars, on the selectors of the model
LabelSelectorSyntax(s) == s \in {"app=test-app"}
FieldSelectorSyntax(s) == s \in {"app=test-app"}

ValidateRequiredString(s) == IF s = "" THEN "required" ELSE ""

\* a timeout check that only requires a non-zero duration
ValidateTimeout_RequiredOnly(d) == IF d = 0 THEN "required" ELSE ""

ValidateTimeout(d) ==
    IF d = 0 THEN "required"
    ELSE IF d < 1000 THEN "min"
    ELSE ""

ValidateLimit(l) ==
    IF l = 0 THEN "required"
    ELSE IF ~(l > 0) THEN "gt"
    ELSE ""

\* a selector check that only requires a non-empty string
ValidateSelector_RequiredOnly(selKind, s) ==
    IF s = "" THEN "required" ELSE ""

\* a selector check that leaves the empty selector to the grammar, which accepts it
ValidateSelector_EmptyAllowed(selKind, s) ==
    IF s = "" THEN ""
    ELSE IF selKind = "label" /\ ~LabelSelectorSyntax(s) THEN "k8s_label_selector"
    ELSE IF selKind = "field" /\ ~FieldSelectorSyntax(s) THEN "k8s_field_selector"
    ELSE ""

ValidateSelector(selKind, s) ==
    IF s = "" THEN "required"
    ELSE IF selKind = "label" /\ ~LabelSelectorSyntax(s) THEN "k8s_label_selector"
    ELSE IF selKind = "field" /\ ~FieldSelectorSyntax(s) THEN "k8s_field_selector"
    ELSE ""

\* a validateInput that checks the limit before the timeout
validateInput_LimitFirst(kind, namespace, timeout, limit) ==
    IF Namespaced(kind) /\ ValidateRequiredString(namespace) /= ""
    THEN Err("invalid namespace", <<>>, ValidateRequiredString(namespace))
    ELSE IF ValidateLimit(limit) /= ""
    THEN Err("invalid limit", <<>>, ValidateLimit(limit))
    ELSE IF ValidateTimeout(timeout) /= ""
    THEN Err("invalid timeout", <<>>, ValidateTimeout(timeout))
    ELSE NoErr

(***************************************************************************)
(* validateInput: scope (namespaced kinds only), timeout, limit, in this   *)
(* order; the first failing check returns.                                 *)
(***************************************************************************)
validateInput(kind, namespace, timeout, limit) ==
    IF Namespaced(kind) /\ ValidateRequiredString(namespace) /= ""
    THEN Err("invalid namespace", <<>>, ValidateRequiredString(namespace))
    ELSE IF ValidateTimeout(timeout) /= ""
    THEN Err("invalid timeout", <<>>, ValidateTimeout(timeout))
    ELSE IF ValidateLimit(limit) /= ""
    THEN Err("invalid limit", <<>>, ValidateLimit(limit))
    ELSE NoErr

\* a list by field that reports its selector with the message of the list by label
SelectorErrPrefix_AlwaysLabel(selKind) == "invalid label selector"

SelectorErrPrefix(selKind) ==
    IF selKind = "label" THEN "invalid label selector" ELSE "invalid field selector"

\* a conversion that rounds a started second up
Seconds_RoundedUp(d) == (d + 999) \div 1000

\* int64(timeoutSeconds.Seconds()): whole seconds of a duration in milliseconds
Seconds(d) == d \div 1000

\* a list by label that does not hand its selector to the transport
ListOptions_SelectorDropped(selKind, selector, timeout, limit) ==
    [LabelSelector  |-> "",
     FieldSelector  |-> IF selKind = "field" THEN selector ELSE "",
     Limit          |-> limit,
     TimeoutSeconds |-> Seconds(timeout),
     Continue       |-> ""]

\* a facade that keeps the options of its last listing, cursor included
ListOptions_CursorKept(selKind, selector, timeout, limit) ==
    [LabelSelector  |-> IF selKind = "label" THEN selector ELSE "",
     FieldSelector  |-> IF selKind = "field" THEN selector ELSE "",
     Limit          |-> limit,
     TimeoutSeconds |-> Seconds(timeout),
     Continue       |-> cur.opts.Continue]

ListOptions(selKind, selector, timeout, limit) ==
    [LabelSelector  |-> IF selKind = "label" THEN selector ELSE "",
     FieldSelector  |-> IF selKind = "field" THEN selector ELSE "",
     Limit          |-> limit,
     TimeoutSeconds |-> Seconds(timeout),
     Continue       |-> ""]

NoOpts == [LabelSelector |-> "", FieldSelector |-> "", Limit |-> 0,
           TimeoutSeconds |-> 0, Continue |-> ""]

NoCall == [kind |-> "", op |-> "", namespace |-> "", name |-> "", selKind |-> "",
           selector |-> "", timeout |-> 0, limit |-> 0]

\* the scope a request is sent to: Namespaces().List has none
Scope(kind, namespace) == IF Namespaced(kind) THEN namespace ELSE ""

ListRequest(kind, namespace, o) ==
    [op |-> "List", kind |-> kind, namespace |-> Scope(kind, namespace),
     name |-> "", opts |-> o]

GetRequest(kind, namespace, name) ==
    [op |-> "Get", kind |-> kind, namespace |-> Scope(kind, namespace),
     name |-> name, opts |-> NoOpts]

(***************************************************************************)
(* The transport: each request is answered by an error, or by a page of    *)
(* items with a cursor ("" on the last page).  It answers at most MaxPages *)
(* list requests of one call: the last of them ends the listing.           *)
(***************************************************************************)
PageResponse(items, cont) == [items |-> items, continue |-> cont, err |-> ""]
ErrResponse(e) == [items |-> <<>>, continue |-> "", err |-> e]

ListResponses(n) ==
    {ErrResponse(e) : e \in TransportErrs}
    \cup {PageResponse(p, "") : p \in Pages}
    \cup IF n < MaxPages THEN {PageResponse(p, c) : p \in Pages, c \in Cursors} ELSE {}

\* the caller's context, passed to every transport call
LiveContext == [cancelled |-> FALSE, requests |-> 0]
CancelledContext(n) == [cancelled |-> TRUE, requests |-> n]

\* a list request under context c: the transport gives up a call whose context is cancelled
ListAnswers(c, n) ==
    IF c.cancelled THEN {ErrResponse("context canceled")} ELSE ListResponses(n)

GetResponses ==
    {ErrResponse(e) : e \in TransportErrs \cup {"not found"}}
    \cup {PageResponse(<<i>>, "") : i \in Items}

(***************************************************************************)
(* GetPodByName, GetServiceByName, GetDeploymentByName, GetNamespaceByName *)
(***************************************************************************)
NameErrPrefix(kind) == "invalid " \o kind \o " name"

\* a get that reports the failure without the transport's error
GetFailed_CauseDropped(kind, namespace, name, e) ==
    IF Namespaced(kind)
    THEN Err("failed to get " \o kind \o " in namespace", <<name, namespace>>, "")
    ELSE Err("failed to get namespace", <<name>>, "")

GetFailed(kind, namespace, name, e) ==
    IF Namespaced(kind)
    THEN Err("failed to get " \o kind \o " in namespace", <<name, namespace>>, e)
    ELSE Err("failed to get namespace", <<name>>, e)

\* a get that checks the scope and forgets the name
GetValidate_NoNameCheck(kind, namespace, name) ==
    IF Namespaced(kind) /\ ValidateRequiredString(namespace) /= ""
    THEN Err("invalid namespace", <<>>, ValidateRequiredString(namespace))
    ELSE NoErr

GetValidate(kind, namespace, name) ==
    IF Namespaced(kind) /\ ValidateRequiredString(namespace) /= ""
    THEN Err("invalid namespace", <<>>, ValidateRequiredString(namespace))
    ELSE IF ValidateRequiredString(name) /= ""
    THEN Err(NameErrPrefix(kind), <<>>, ValidateRequiredString(name))
    ELSE NoErr

GetByName(kind, namespace, name) ==
    /\ pc = "idle"
    /\ call' = [NoCall EXCEPT !.kind = kind, !.op = "Get",
                              !.namespace = namespace, !.name = name]
    /\ pc' = "done"
    /\ IF GetValidate(kind, namespace, name) /= NoErr
       THEN /\ ret' = [value |-> NilSlice, err |-> GetValidate(kind, namespace, name)]
            /\ UNCHANGED <<calls, served>>
       ELSE \E resp \in GetResponses :
              /\ calls' = Append(calls, GetRequest(kind, namespace, name))
              /\ served' = Append(served, resp)
              /\ ret' = IF resp.err /= ""
                        THEN [value |-> NilSlice,
                              err |-> GetFailed(kind, namespace, name, resp.err)]
                        ELSE [value |-> Slice(resp.items), err |-> NoErr]
    /\ UNCHANGED <<opts, result, ctx>>
    /\ UNCHANGED notFacadeVars

(***************************************************************************)
(* List<Kind>sByLabel and List<Kind>sByField: validate, build the options, *)
(* enter loopForResult.                                                    *)
(***************************************************************************)
ListValidate(kind, selKind, namespace, selector, timeout, limit) ==
    IF validateInput(kind, namespace, timeout, limit) /= NoErr
    THEN validateInput(kind, namespace, timeout, limit)
    ELSE IF ValidateSelector(selKind, selector) /= ""
    THEN Err(SelectorErrPrefix(selKind), <<>>, ValidateSelector(selKind, selector))
    ELSE NoErr

ListBySelector(kind, selKind, namespace, selector, timeout, limit) ==
    /\ pc = "idle"
    /\ call' = [NoCall EXCEPT !.kind = kind, !.op = "List", !.namespace = namespace,
                              !.selKind = selKind, !.selector = selector,
                              !.timeout = timeout, !.limit = limit]
    /\ IF ListValidate(kind, selKind, namespace, selector, timeout, limit) /= NoErr
       THEN /\ pc' = "done"
            /\ ret' = [value |-> NilSlice,
                       err |-> ListValidate(kind, selKind, namespace, selector,
                                            timeout, limit)]
            /\ UNCHANGED opts
       ELSE /\ pc' = "loop"
            /\ opts' = ListOptions(selKind, selector, timeout, limit)
            /\ UNCHANGED ret
    /\ result' = NilSlice
    /\ UNCHANGED <<calls, served, ctx>>
    /\ UNCHANGED notFacadeVars

ListByLabel ==
    \E kind \in Kinds, namespace \in Namespaces, selector \in Selectors,
       timeout \in Timeouts, limit \in Limits :
        ListBySelector(kind, "label", namespace, selector, timeout, limit)

ListByField ==
    \E kind \in Kinds, namespace \in Namespaces, selector \in Selectors,
       timeout \in Timeouts, limit \in Limits :
        ListBySelector(kind, "field", namespace, selector, timeout, limit)

Get ==
    \E kind \in Kinds, namespace \in Namespaces, name \in Names :
        GetByName(kind, namespace, name)

(***************************************************************************)
(* loopForResult: one iteration per step.                                  *)
(***************************************************************************)
\* a loop that keeps only the page just fetched
Accumulate_LastPageOnly(acc, items) ==
    IF items = <<>> THEN acc ELSE Slice(items)

\* result = append(result, list.Items...): appending nothing to nil leaves nil
Accumulate(acc, items) ==
    IF items = <<>> THEN acc ELSE Slice(acc.items \o items)

\* a loop that never sets the cursor on the next request
NextOpts_CursorNotSet(o, cont) == o

\* a loop that treats the timeout as a deadline for the whole listing
NextOpts_DeadlineShrinks(o, cont) ==
    [o EXCEPT !.Continue = cont, !.TimeoutSeconds = @ - 1]

\* opts.Continue = list.Continue
NextOpts(o, cont) == [o EXCEPT !.Continue = cont]

\* a loop that does not look at the cursor and goes on
LoopDone_CursorIgnored(cont) == FALSE

\* a loop that stops when the transport hands back the cursor it was given
LoopDone_RepeatedCursorStops(cont) == cont = "" \/ cont = cur.opts.Continue

\* a loop that stops after its first page, cursor or not
LoopDone_AfterFirstPage(cont) == TRUE

\* if list.Continue == "" { break }
LoopDone(cont) == cont = ""

ListFailed(kind, namespace, e) ==
    IF Namespaced(kind)
    THEN Err("failed to list " \o KindPlural(kind) \o " in namespace", <<namespace>>, e)
    ELSE Err("failed to list namespaces", <<>>, e)

\* an error return that hands out what was accumulated so far
FailReturn_Partial(acc, e) == [value |-> acc, err |-> e]

\* return nil, fmt.Errorf(...): the accumulator is dropped
FailReturn(acc, e) == [value |-> NilSlice, err |-> e]

\* a loop that tries again after an error
PcAfterError_Retry == "loop"

\* return nil, fmt.Errorf(...): an error ends the call
PcAfterError == "done"

loopForResult ==
    /\ pc = "loop"
    /\ \E resp \in ListAnswers(ctx, Len(calls) + 1) :
         /\ calls' = Append(calls, ListRequest(call.kind, call.namespace, opts))
         /\ served' = Append(served, resp)
         /\ IF resp.err /= ""
            THEN /\ pc' = PcAfterError
                 /\ ret' = FailReturn(result,
                                      ListFailed(call.kind, call.namespace, resp.err))
                 /\ UNCHANGED <<opts, result>>
            ELSE /\ result' = Accumulate(result, resp.items)
                 /\ IF LoopDone(resp.continue)
                    THEN /\ pc' = "done"
                         /\ ret' = [value |-> Accumulate(result, resp.items),
                                    err |-> NoErr]
                         /\ UNCHANGED opts
                    ELSE /\ pc' = "loop"
                         /\ opts' = NextOpts(opts, resp.continue)
                         /\ UNCHANGED ret
    /\ UNCHANGED <<call, ctx>>
    /\ UNCHANGED notFacadeVars

\* the caller cancels its context while a list call is in progress
CancelContext ==
    /\ pc = "loop"
    /\ ~ctx.cancelled
    /\ ctx' = CancelledContext(Len(calls))
    /\ UNCHANGED <<pc, call, opts, result, ret, calls, served>>
    /\ UNCHANGED notFacadeVars

NoRet == [value |-> NilSlice, err |-> NoErr]

FacadeInit ==
    /\ pc = "idle"
    /\ call = NoCall
    /\ opts = NoOpts
    /\ result = NilSlice
    /\ ret = NoRet
    /\ calls = <<>>
    /\ served = <<>>
    /\ ctx = LiveContext


(***************************************************************************)
(* The composition root.  A facade slot holds 0 (nil) or the client handle *)
(* the facade was built from.  Errors are wrap chains, outermost first;    *)
(* <<>> is nil.                                                            *)
(***************************************************************************)
ErrAlreadyConfigured == "k8s client already configured"

OptionNames == {"WithKubeConfigLoader", "WithServiceAccount"}

\* what the environment lets a connection strategy do: the stage that fails, or "ok"
KubeConfigOutcomes == {"ok", "authLoader.Load", "getRestConfig", "kubernetes.NewForConfig"}
ServiceAccountOutcomes == {"ok", "rest.InClusterConfig", "kubernetes.NewForConfig"}

Outcomes(opt) ==
    IF opt = "WithKubeConfigLoader" THEN KubeConfigOutcomes ELSE ServiceAccountOutcomes

EmptyClient == [pods |-> 0, services |-> 0, deployments |-> 0, namespaces |-> 0]

\* a validation that does not look at the slots and passes every root
ValidateStruct_SlotsSkipped(c) == <<>>

\* val.ValidateStruct on K8sClient: every slot is tagged required
ValidateStruct(c) ==
    IF c.pods = 0 \/ c.services = 0 \/ c.deployments = 0 \/ c.namespaces = 0
    THEN <<"required">>
    ELSE <<>>

\* KubeConfigConnection.NativeAPI: Load, getRestConfig, NewForConfig
KubeConfigStages == <<"authLoader.Load", "getRestConfig", "kubernetes.NewForConfig">>

\* the stages of seq that run when the stage named failing fails (none fails on "ok"),
\* each with its result
StagesUpTo(seq, failing) ==
    LET n == IF \E i \in 1..Len(seq) : seq[i] = failing
             THEN CHOOSE i \in 1..Len(seq) : seq[i] = failing
             ELSE Len(seq)
    IN [i \in 1..n |-> [stage |-> seq[i], failed |-> seq[i] = failing]]

\* a strategy that drops the loader's error and parses what it got
KubeConfigNativeAPI_LoadErrorDropped(outcome) ==
    IF outcome = "authLoader.Load"
    THEN [stages |-> <<[stage |-> "authLoader.Load", failed |-> TRUE],
                       [stage |-> "getRestConfig", failed |-> TRUE]>>,
          err    |-> <<"getRestConfig failed", "cause">>]
    ELSE [stages |-> StagesUpTo(KubeConfigStages, outcome),
          err    |-> IF outcome = "ok" THEN <<>> ELSE <<outcome \o " failed", "cause">>]

KubeConfigNativeAPI(outcome) ==
    [stages |-> StagesUpTo(KubeConfigStages, outcome),
     err    |-> IF outcome = "ok" THEN <<>> ELSE <<outcome \o " failed", "cause">>]

\* ServiceAccountConnectionNativeAPI: InClusterConfig, NewForConfig
ServiceAccountStages == <<"rest.InClusterConfig", "kubernetes.NewForConfig">>

\* a strategy that calls the constructor whatever discovery returned
ServiceAccountNativeAPI_ConstructsAnyway(outcome) ==
    [stages |-> [i \in 1..2 |-> [stage |-> ServiceAccountStages[i],
                                  failed |-> ServiceAccountStages[i] = outcome]],
     err    |-> IF outcome = "ok" THEN <<>> ELSE <<outcome \o " failed", "cause">>]

ServiceAccountNativeAPI(outcome) ==
    [stages |-> StagesUpTo(ServiceAccountStages, outcome),
     err    |-> IF outcome = "ok" THEN <<>> ELSE <<outcome \o " failed", "cause">>]

NativeAPI(opt, outcome) ==
    IF opt = "WithKubeConfigLoader"
    THEN KubeConfigNativeAPI(outcome)
    ELSE ServiceAccountNativeAPI(outcome)

InitErrPrefix(opt) ==
    IF opt = "WithKubeConfigLoader"
    THEN "failed to init k8s client"
    ELSE "failed to init k8s client with service account"

\* an option that forgets the namespace facade
InstallFacades_NamespacesForgotten(c, n) ==
    [c EXCEPT !.pods = n, !.services = n, !.deployments = n]

\* pod.NewPodAPI(n), service.NewServiceAPI(n), ...: all four from the one handle n
InstallFacades(c, n) ==
    [c EXCEPT !.pods = n, !.services = n, !.deployments = n, !.namespaces = n]

\* options without the guard: a later option configures the root again
AlreadyConfigured_NoGuard(c) == FALSE

\* the guard of both options: a root that validates is already configured
AlreadyConfigured(c) == ValidateStruct(c) = <<>>

(***************************************************************************)
(* WithKubeConfigLoader(loader)(k8sClient) and WithServiceAccount()        *)
(* (k8sClient): the error returned, the root and the handles afterwards,   *)
(* and the strategy stages that ran.                                       *)
(***************************************************************************)
\* an option that connects first and looks at the root afterwards
ApplyOption_GuardAfterConnect(opt, outcome, c, hs) ==
    IF NativeAPI(opt, outcome).err /= <<>>
    THEN [err |-> <<InitErrPrefix(opt)>> \o NativeAPI(opt, outcome).err,
          client |-> c, handles |-> hs, stages |-> NativeAPI(opt, outcome).stages]
    ELSE IF AlreadyConfigured(c)
    THEN [err |-> <<ErrAlreadyConfigured>>, client |-> c, handles |-> hs,
          stages |-> NativeAPI(opt, outcome).stages]
    ELSE [err |-> <<>>,
          client |-> InstallFacades(c, Len(hs) + 1),
          handles |-> Append(hs, opt),
          stages |-> NativeAPI(opt, outcome).stages]

ApplyOption(opt, outcome, c, hs) ==
    IF AlreadyConfigured(c)
    THEN [err |-> <<ErrAlreadyConfigured>>, client |-> c, handles |-> hs, stages |-> <<>>]
    ELSE IF NativeAPI(opt, outcome).err /= <<>>
    THEN [err |-> <<InitErrPrefix(opt)>> \o NativeAPI(opt, outcome).err,
          client |-> c, handles |-> hs, stages |-> NativeAPI(opt, outcome).stages]
    ELSE [err |-> <<>>,
          client |-> InstallFacades(c, Len(hs) + 1),
          handles |-> Append(hs, opt),
          stages |-> NativeAPI(opt, outcome).stages]

NilClientRet(e) == [isNil |-> TRUE, client |-> EmptyClient, err |-> e]
ClientRet(c) == [isNil |-> FALSE, client |-> c, err |-> <<>>]

\* a NewK8sClient that returns the root without validating it
Conclude_NoValidation(c) == ClientRet(c)

\* the end of NewK8sClient: validate the root, return it or the validation error
Conclude(c) ==
    IF ValidateStruct(c) /= <<>>
    THEN NilClientRet(<<"failed to validate k8s client">> \o ValidateStruct(c))
    ELSE ClientRet(c)

\* a NewK8sClient that returns the root along with the option's error
ConfigureFailed_ReturnsRoot(c, e) ==
    [isNil |-> FALSE, client |-> c, err |-> <<"failed to configure k8s client">> \o e]

\* an option's error as NewK8sClient returns it
ConfigureFailed(c, e) == NilClientRet(<<"failed to configure k8s client">> \o e)

\* a best-effort loop: an option's error does not stop it
LoopContinues_BestEffort(e) == TRUE

\* for _, option := range options: does the loop go on after this option's result
LoopContinues(e) == e = <<>>

OptionLists == UNION {[1..n -> OptionNames] : n \in 0..MaxOptions}

(***************************************************************************)
(* NewK8sClient(options...): the call, up to its first option.             *)
(***************************************************************************)
NewK8sClient ==
    /\ rootPc = "start"
    /\ \E os \in OptionLists :
         /\ options' = os
         /\ mode' = "new"
         /\ idx' = 0
         /\ client' = EmptyClient
         /\ IF Len(os) = 0
            THEN /\ rootPc' = "done"
                 /\ newRet' = Conclude(EmptyClient)
            ELSE /\ rootPc' = "applying"
                 /\ UNCHANGED newRet
    /\ UNCHANGED <<handles, applied, stages>>
    /\ UNCHANGED notRootVars

(***************************************************************************)
(* One iteration of NewK8sClient's loop over the options; after the last   *)
(* option the root is validated and returned.                              *)
(***************************************************************************)
ApplyNextOption ==
    /\ rootPc = "applying"
    /\ mode = "new"
    /\ idx < Len(options)
    /\ \E outcome \in Outcomes(options[idx + 1]) :
         LET r == ApplyOption(options[idx + 1], outcome, client, handles) IN
           /\ client' = r.client
           /\ handles' = r.handles
           /\ stages' = Append(stages, r.stages)
           /\ applied' = Append(applied, [opt |-> options[idx + 1], err |-> r.err])
           /\ idx' = idx + 1
           /\ IF ~LoopContinues(r.err)
              THEN /\ rootPc' = "done"
                   /\ newRet' = ConfigureFailed(r.client, r.err)
              ELSE IF idx + 1 = Len(options)
              THEN /\ rootPc' = "done"
                   /\ newRet' = Conclude(r.client)
              ELSE /\ rootPc' = "applying"
                   /\ UNCHANGED newRet
    /\ UNCHANGED <<mode, options>>
    /\ UNCHANGED notRootVars

(***************************************************************************)
(* A caller that holds a root of its own (&K8sClient{}) and applies        *)
(* options to it one by one, whatever each returns.                        *)
(***************************************************************************)
DirectRoot ==
    /\ rootPc = "start"
    /\ mode' = "direct"
    /\ rootPc' = "applying"
    /\ client' = EmptyClient
    /\ UNCHANGED <<options, idx, handles, applied, stages, newRet>>
    /\ UNCHANGED notRootVars

DirectApply ==
    /\ rootPc = "applying"
    /\ mode = "direct"
    /\ Len(applied) < MaxOptions
    /\ \E opt \in OptionNames : \E outcome \in Outcomes(opt) :
         LET r == ApplyOption(opt, outcome, client, handles) IN
           /\ client' = r.client
           /\ handles' = r.handles
           /\ stages' = Append(stages, r.stages)
           /\ applied' = Append(applied, [opt |-> opt, err |-> r.err])
    /\ UNCHANGED <<rootPc, mode, options, idx, newRet>>
    /\ UNCHANGED notRootVars

RootInit ==
    /\ rootPc = "start"
    /\ mode = ""
    /\ options = <<>>
    /\ idx = 0
    /\ client = EmptyClient
    /\ handles = <<>>
    /\ applied = <<>>
    /\ stages = <<>>
    /\ newRet = NilClientRet(<<>>)


(***************************************************************************)
(* The kubeconfig loader: NewK8sConfigLoader(path).Load() on a file system *)
(* with a missing path, a directory, a file without read permission, a     *)
(* kubeconfig file and an empty file.  A byte slice is nil or its content. *)
(***************************************************************************)
Paths == {"", "/missing", "/dir", "/unreadable", "/kubeconfig", "/empty"}

NoFile == [exists |-> FALSE, dir |-> FALSE, readable |-> FALSE, content |-> ""]

FileSystem(path) ==
    CASE path = "/dir"        -> [NoFile EXCEPT !.exists = TRUE, !.dir = TRUE, !.readable = TRUE]
      [] path = "/unreadable" -> [NoFile EXCEPT !.exists = TRUE, !.content = "secret"]
      [] path = "/kubeconfig" -> [NoFile EXCEPT !.exists = TRUE, !.readable = TRUE,
                                                !.content = "valid-kube-config-data"]
      [] path = "/empty"      -> [NoFile EXCEPT !.exists = TRUE, !.readable = TRUE]
      [] OTHER                -> NoFile

NilBytes == [isNil |-> TRUE, bytes |-> ""]
Bytes(b) == [isNil |-> FALSE, bytes |-> b]

\* val.ValidateWithTag(path, "required,file"): the tag that fails, "" when none does
ValidatePath(path) ==
    IF path = "" THEN "required"
    ELSE IF ~FileSystem(path).exists \/ FileSystem(path).dir THEN "file"
    ELSE ""

\* os.ReadFile(path)
ReadFile(path) ==
    IF ~FileSystem(path).exists THEN [data |-> NilBytes, err |-> "no such file or directory"]
    ELSE IF FileSystem(path).dir THEN [data |-> NilBytes, err |-> "is a directory"]
    ELSE IF ~FileSystem(path).readable THEN [data |-> NilBytes, err |-> "permission denied"]
    ELSE [data |-> Bytes(FileSystem(path).content), err |-> ""]

\* a loader that reads first and checks nothing
Load_NoPathCheck(path) ==
    IF ReadFile(path).err /= ""
    THEN [data |-> NilBytes, err |-> <<"os.ReadFile failed", ReadFile(path).err>>,
          reads |-> <<path>>]
    ELSE [data |-> ReadFile(path).data, err |-> <<>>, reads |-> <<path>>]

\* K8sAuthDataLoader.Load: the data and error returned, and the files it read
Load(path) ==
    IF ValidatePath(path) /= ""
    THEN [data |-> NilBytes, err |-> <<"val.ValidateWithTag failed", ValidatePath(path)>>,
          reads |-> <<>>]
    ELSE IF ReadFile(path).err /= ""
    THEN [data |-> NilBytes, err |-> <<"os.ReadFile failed", ReadFile(path).err>>,
          reads |-> <<path>>]
    ELSE [data |-> ReadFile(path).data, err |-> <<>>, reads |-> <<path>>]

\* NewK8sConfigLoader(path).Load()
LoadKubeConfig(path) ==
    /\ Len(loads) < MaxLoads
    /\ loads' = Append(loads, [path  |-> path,
                               data  |-> Load(path).data,
                               err   |-> Load(path).err,
                               reads |-> Load(path).reads])
    /\ UNCHANGED notLoaderVars

LoadAnyPath == \E path \in Paths : LoadKubeConfig(path)

LoaderInit == loads = <<>>


(***************************************************************************)
(* Concurrent callers of one facade.  The facade holds the client handle   *)
(* and nothing else; what a call works on (its arguments, opts with the    *)
(* cursor, the accumulator) are parameters and locals of its own           *)
(* invocation.  One step per transport call.                               *)
(***************************************************************************)
Callers == {1, 2}

IdleLocal == [pc |-> "idle", call |-> NoCall, opts |-> NoOpts, result |-> NilSlice,
              ret |-> NoRet, sent |-> <<>>, served |-> <<>>]

GetCall(kind, namespace, name) ==
    [NoCall EXCEPT !.kind = kind, !.op = "Get", !.namespace = namespace, !.name = name]

ListCall(kind, selKind, namespace, selector, timeout, limit) ==
    [NoCall EXCEPT !.kind = kind, !.op = "List", !.namespace = namespace,
                   !.selKind = selKind, !.selector = selector,
                   !.timeout = timeout, !.limit = limit]

ConcCalls ==
    {GetCall("pod", "test-namespace", "test-name"),
     GetCall("pod", "test-namespace", ""),
     ListCall("pod", "label", "test-namespace", "app=test-app", 1000, 1),
     ListCall("pod", "field", "test-namespace", "app=test-app", 1500, 2),
     ListCall("pod", "label", "test-namespace", "app=test-app", 1000, 0)}

ConcListResponses(n) ==
    {ErrResponse("connection refused"), PageResponse(<<"a">>, "")}
    \cup IF n < MaxConcPages
         THEN {PageResponse(<<"a">>, "c1"), PageResponse(<<"b", "a">>, "c2")}
         ELSE {}

ConcGetResponses == {ErrResponse("not found"), PageResponse(<<"a">>, "")}

\* a call up to its first transport call: validation, and for a list the options
EnterCall(c) ==
    IF c.op = "Get"
    THEN IF GetValidate(c.kind, c.namespace, c.name) /= NoErr
         THEN [IdleLocal EXCEPT !.pc = "done", !.call = c,
                                !.ret = [value |-> NilSlice,
                                         err |-> GetValidate(c.kind, c.namespace, c.name)]]
         ELSE [IdleLocal EXCEPT !.pc = "get", !.call = c]
    ELSE IF ListValidate(c.kind, c.selKind, c.namespace, c.selector,
                         c.timeout, c.limit) /= NoErr
         THEN [IdleLocal EXCEPT !.pc = "done", !.call = c,
                                !.ret = [value |-> NilSlice,
                                         err |-> ListValidate(c.kind, c.selKind, c.namespace,
                                                              c.selector, c.timeout, c.limit)]]
         ELSE [IdleLocal EXCEPT !.pc = "loop", !.call = c,
                                !.opts = ListOptions(c.selKind, c.selector,
                                                     c.timeout, c.limit)]

\* the transport call of a get and what the get returns
GetStep(l, resp) ==
    [l EXCEPT !.pc = "done",
              !.sent = Append(@, GetRequest(l.call.kind, l.call.namespace, l.call.name)),
              !.served = Append(@, resp),
              !.ret = IF resp.err /= ""
                      THEN [value |-> NilSlice,
                            err |-> GetFailed(l.call.kind, l.call.namespace,
                                              l.call.name, resp.err)]
                      ELSE [value |-> Slice(resp.items), err |-> NoErr]]

\* one iteration of loopForResult on the locals l
LoopStep(l, resp) ==
    LET req == ListRequest(l.call.kind, l.call.namespace, l.opts) IN
    IF resp.err /= ""
    THEN [l EXCEPT !.pc = PcAfterError,
                   !.sent = Append(@, req), !.served = Append(@, resp),
                   !.ret = FailReturn(l.result,
                                      ListFailed(l.call.kind, l.call.namespace, resp.err))]
    ELSE IF LoopDone(resp.continue)
    THEN [l EXCEPT !.pc = "done",
                   !.sent = Append(@, req), !.served = Append(@, resp),
                   !.result = Accumulate(@, resp.items),
                   !.ret = [value |-> Accumulate(l.result, resp.items), err |-> NoErr]]
    ELSE [l EXCEPT !.sent = Append(@, req), !.served = Append(@, resp),
                   !.result = Accumulate(@, resp.items),
                   !.opts = NextOpts(@, resp.continue)]

Step(l, resp) == IF l.call.op = "Get" THEN GetStep(l, resp) ELSE LoopStep(l, resp)

\* a facade that keeps the options of the listing in a field of its own
LocalsOf_OptsOnFacade(cs, c) == [cs[c] EXCEPT !.opts = cs[1].opts]

\* what caller c's invocation works on: its own parameters and locals
LocalsOf(cs, c) == cs[c]

Enter(c) ==
    /\ conc[c].pc = "idle"
    /\ \E cl \in ConcCalls : conc' = [conc EXCEPT ![c] = EnterCall(cl)]
    /\ UNCHANGED notConcVars

TransportCall(c) ==
    /\ conc[c].pc \in {"get", "loop"}
    /\ \E resp \in IF conc[c].call.op = "Get"
                   THEN ConcGetResponses
                   ELSE ConcListResponses(Len(conc[c].sent) + 1) :
         conc' = [conc EXCEPT ![c] = Step(LocalsOf(conc, c), resp)]
    /\ UNCHANGED notConcVars

ConcEnter == \E c \in Callers : Enter(c)
ConcTransportCall == \E c \in Callers : TransportCall(c)

ConcInit == conc = [c \in Callers |-> IdleLocal]


(***************************************************************************)
(* Calls one after the other against a transport that answers from a       *)
(* backing data set: a get finds the resource of the name in the           *)
(* namespace or answers "not found"; a list answers the resources of the   *)
(* namespace that match the label selector, Limit at a time in the order   *)
(* of the data set, with a cursor while more remain.  Any request can fail *)
(* with a transport error instead.                                         *)
(***************************************************************************)
Resource(name, namespace, app) == [name |-> name, namespace |-> namespace, app |-> app]

DataSets ==
    {<<Resource("a", "test-namespace", "test-app"),
       Resource("b", "test-namespace", "test-app"),
       Resource("c", "test-namespace", "other-app")>>,
     <<Resource("b", "test-namespace", "test-app"),
       Resource("d", "other-namespace", "test-app")>>,
     <<Resource("c", "test-namespace", "other-app")>>}

InitialData == CHOOSE d \in DataSets : Len(d) = 3

StoreCalls ==
    {GetCall("pod", "test-namespace", "a"),
     ListCall("pod", "label", "test-namespace", "app=test-app", 1000, 1),
     ListCall("pod", "label", "test-namespace", "app=test-app", 1500, 2)}

\* the cursors of the transport: Tokens[k] resumes after k resources
Tokens == <<"c1", "c2", "c3">>
OffsetOf(cont) ==
    IF cont = "" THEN 0 ELSE CHOOSE k \in 1..Len(Tokens) : Tokens[k] = cont

Selected(r, namespace, labelSelector) ==
    /\ namespace = "" \/ r.namespace = namespace
    /\ labelSelector = "" \/ (labelSelector = "app=test-app" /\ r.app = "test-app")

RECURSIVE NamesSelected(_, _, _)
NamesSelected(data, namespace, labelSelector) ==
    IF data = <<>> THEN <<>>
    ELSE (IF Selected(data[1], namespace, labelSelector) THEN <<data[1].name>> ELSE <<>>)
         \o NamesSelected(Tail(data), namespace, labelSelector)

StoreList(data, req) ==
    LET all  == NamesSelected(data, req.namespace, req.opts.LabelSelector)
        from == OffsetOf(req.opts.Continue)
        to   == IF from + req.opts.Limit < Len(all) THEN from + req.opts.Limit ELSE Len(all)
    IN PageResponse(SubSeq(all, from + 1, to),
                    IF to < Len(all) THEN Tokens[to] ELSE "")

StoreGet(data, req) ==
    IF \E i \in 1..Len(data) :
          data[i].name = req.name /\ data[i].namespace = req.namespace
    THEN PageResponse(<<req.name>>, "")
    ELSE ErrResponse("not found")

\* the request the call with locals l sends next
NextRequest(l) ==
    IF l.call.op = "Get"
    THEN GetRequest(l.call.kind, l.call.namespace, l.call.name)
    ELSE ListRequest(l.call.kind, l.call.namespace, l.opts)

StoreAnswers(data, req) ==
    {IF req.op = "Get" THEN StoreGet(data, req) ELSE StoreList(data, req),
     ErrResponse("connection refused")}

StoreEnter ==
    /\ cur.pc = "idle"
    /\ Len(history) < MaxCalls
    /\ \E cl \in StoreCalls : cur' = EnterCall(cl)
    /\ UNCHANGED <<store, history>>
    /\ UNCHANGED notStoreVars

StoreTransportCall ==
    /\ cur.pc \in {"get", "loop"}
    /\ \E resp \in StoreAnswers(store, NextRequest(cur)) : cur' = Step(cur, resp)
    /\ UNCHANGED <<store, history>>
    /\ UNCHANGED notStoreVars

\* the call returns to its caller; its locals are dead from here on
StoreReturn ==
    /\ cur.pc = "done"
    /\ history' = Append(history, [call |-> cur.call, ret |-> cur.ret, data |-> store])
    /\ cur' = [cur EXCEPT !.pc = "idle"]
    /\ UNCHANGED store
    /\ UNCHANGED notStoreVars

\* between two calls the backing data set changes
ChangeData ==
    /\ cur.pc = "idle"
    /\ \E d \in DataSets \ {store} : store' = d
    /\ UNCHANGED <<cur, history>>
    /\ UNCHANGED notStoreVars

StoreInit ==
    /\ store = InitialData
    /\ cur = IdleLocal
    /\ history = <<>>


(***************************************************************************)
(* A list call against a transport that returns a non-empty cursor on      *)
(* every page, the cursor it was just given included.  The model follows   *)
(* the call for MaxEndlessPages requests.                                  *)
(***************************************************************************)
EndlessCalls ==
    {ListCall("pod", "label", "test-namespace", "app=test-app", 1000, 1),
     ListCall("service", "field", "test-namespace", "app=test-app", 1500, 2)}

EndlessResponses == {PageResponse(p, c) : p \in Pages \ {<<>>}, c \in Cursors}

EndlessEnter ==
    /\ cur.pc = "idle"
    /\ \E cl \in EndlessCalls : cur' = EnterCall(cl)
    /\ UNCHANGED <<store, history>>
    /\ UNCHANGED notStoreVars

EndlessTransportCall ==
    /\ cur.pc = "loop"
    /\ Len(cur.sent) < MaxEndlessPages
    /\ \E resp \in EndlessResponses : cur' = Step(cur, resp)
    /\ UNCHANGED <<store, history>>
    /\ UNCHANGED notStoreVars

Init == FacadeInit /\ RootInit /\ LoaderInit /\ ConcInit /\ StoreInit

Next == Get \/ ListByLabel \/ ListByField \/ loopForResult \/ CancelContext

Spec == Init /\ [][Next]_vars

\* the goroutine in loopForResult runs on, and the transport answers every request
SpecLive == Init /\ [][Next]_vars /\ WF_vars(loopForResult)

NextRoot == NewK8sClient \/ ApplyNextOption \/ DirectRoot \/ DirectApply

SpecRoot == Init /\ [][NextRoot]_vars

NextLoader == LoadAnyPath

SpecLoader == Init /\ [][NextLoader]_vars

NextConc == ConcEnter \/ ConcTransportCall

SpecConc == Init /\ [][NextConc]_vars

NextStore == StoreEnter \/ StoreTransportCall \/ StoreReturn \/ ChangeData

SpecStore == Init /\ [][NextStore]_vars

NextEndless == EndlessEnter \/ EndlessTransportCall

SpecEndless == Init /\ [][NextEndless]_vars


(***************************************************************************)
(* Properties of the facades, checked under Spec.                          *)
(***************************************************************************)
RECURSIVE ConcatItems(_)
ConcatItems(rs) ==
    IF rs = <<>> THEN <<>> ELSE rs[1].items \o ConcatItems(Tail(rs))

\* the transport returned N pages: a cursor on pages 1..N-1, none on page N
ReturnedAllPages(rs) ==
    /\ Len(rs) >= 1
    /\ \A i \in 1..Len(rs) : rs[i].err = ""
    /\ \A i \in 1..(Len(rs) - 1) : rs[i].continue /= ""
    /\ rs[Len(rs)].continue = ""

ListDone == pc = "done" /\ call.op = "List"
GetDone == pc = "done" /\ call.op = "Get"

\* C1: when the transport has returned N pages, a cursor on each but the
\* last, the list call returns without error the concatenation of the items
\* of pages 1..N in page order: nothing dropped, added, reordered or
\* de-duplicated.
C1_PaginationComplete ==
    (ListDone /\ ReturnedAllPages(served))
        => /\ ret.err = NoErr
           /\ ret.value.items = ConcatItems(served)

\* three pages, the same item on two of them, two items on one page
C1_Witness ==
    /\ ListDone
    /\ call.kind = "service"
    /\ ReturnedAllPages(served)
    /\ Len(served) = 3
    /\ ret.value.items = <<"a", "b", "a", "a">>

\* C2: a list call sends its first request with an empty cursor and request
\* i+1 with exactly the cursor response i returned; it sends no request
\* after a response with an empty cursor (or an error), and it does not
\* return before such a response: N pages are fetched by exactly N requests.
C2_CursorChain ==
    call.op = "List"
        => /\ Len(calls) = Len(served)
           /\ \A i \in 1..Len(calls) :
                /\ calls[i].op = "List"
                /\ calls[i].opts.Continue =
                       IF i = 1 THEN "" ELSE served[i - 1].continue
           /\ \A i \in 1..(Len(served) - 1) :
                served[i].err = "" /\ served[i].continue /= ""
           /\ (pc = "done" /\ served /= <<>>)
                => (served[Len(served)].err /= "" \/ served[Len(served)].continue = "")
           /\ (pc = "loop" /\ served /= <<>>)
                => (served[Len(served)].err = "" /\ served[Len(served)].continue /= "")

\* three requests, the second and third carrying different cursors
C2_Witness ==
    /\ ListDone
    /\ call.kind = "deployment"
    /\ ReturnedAllPages(served)
    /\ Len(calls) = 3
    /\ calls[2].opts.Continue = "c1"
    /\ calls[3].opts.Continue = "c2"

\* C3: when the transport answers page k with an error, the list call
\* returns that error, wrapped, and a nil result: the items of pages 1..k-1
\* do not reach the caller, and page k is the last one requested.
C3_AbortOnPageError ==
    call.op = "List"
        => \A k \in 1..Len(served) :
             served[k].err /= ""
                 => /\ k = Len(served)
                    /\ Len(calls) = k
                    /\ pc = "done"
                    /\ ret.value = NilSlice
                    /\ ret.err = ListFailed(call.kind, call.namespace, served[k].err)
                    /\ ret.err.cause = served[k].err

\* page 1 brought items, page 2 failed
C3_Witness ==
    /\ ListDone
    /\ call.kind = "pod"
    /\ Len(served) = 2
    /\ served[1].items = <<"b", "a">>
    /\ served[2].err = "connection refused"

ValidationPrefixes ==
    {"invalid namespace", "invalid timeout", "invalid limit",
     "invalid label selector", "invalid field selector"}

ScopeValid(c) == Namespaced(c.kind) => c.namespace /= ""
TimeoutValid(c) == c.timeout >= 1000
LimitValid(c) == c.limit > 0
SelectorValid(c) ==
    /\ c.selector /= ""
    /\ IF c.selKind = "label"
       THEN LabelSelectorSyntax(c.selector)
       ELSE FieldSelectorSyntax(c.selector)

\* C4: a list call whose scope (namespaced kinds), timeout, limit or
\* selector is invalid returns a validation error and a nil result, and the
\* transport receives no request.
C4_InvalidListNoTransport ==
    (call.op = "List"
     /\ ~(ScopeValid(call) /\ TimeoutValid(call) /\ LimitValid(call) /\ SelectorValid(call)))
        => /\ pc = "done"
           /\ ret.value = NilSlice
           /\ ret.err.prefix \in ValidationPrefixes
           /\ calls = <<>>
           /\ served = <<>>

\* a field selector that is not of the grammar, everything else valid
C4_Witness ==
    /\ ListDone
    /\ call.kind = "pod"
    /\ call.selKind = "field"
    /\ call.selector = "invalid@sel"
    /\ ScopeValid(call) /\ TimeoutValid(call) /\ LimitValid(call)
    /\ ret.err.prefix = "invalid field selector"

FirstFailingCheck(c) ==
    IF ~ScopeValid(c) THEN "invalid namespace"
    ELSE IF ~TimeoutValid(c) THEN "invalid timeout"
    ELSE IF ~LimitValid(c) THEN "invalid limit"
    ELSE IF ~SelectorValid(c)
         THEN (IF c.selKind = "label" THEN "invalid label selector"
               ELSE "invalid field selector")
    ELSE ""

\* C5: the error of an invalid list call is that of the first failing check
\* in the order scope, timeout, limit, selector; a timeout under one second
\* or a limit <= 0 is reported even when the selector is invalid too.
C5_ValidationOrder ==
    ListDone
        => IF FirstFailingCheck(call) /= ""
           THEN ret.err.prefix = FirstFailingCheck(call)
           ELSE ret.err.prefix \notin ValidationPrefixes

\* timeout, limit and selector all invalid: the timeout is reported
C5_Witness ==
    /\ ListDone
    /\ call.kind = "deployment"
    /\ call.namespace = "test-namespace"
    /\ call.timeout = 500
    /\ call.limit = -1
    /\ call.selector = ""
    /\ ret.err.prefix = "invalid timeout"

\* C6: GetByName with an empty name, or with an empty namespace for a
\* namespaced kind, returns a validation error and a nil record, and the
\* transport receives no request.
C6_GetValidation ==
    (call.op = "Get" /\ (call.name = "" \/ ~ScopeValid(call)))
        => /\ pc = "done"
           /\ ret.value = NilSlice
           /\ ret.err.prefix \in {"invalid namespace", NameErrPrefix(call.kind)}
           /\ ret.err.cause = "required"
           /\ calls = <<>>

\* the cluster-wide kind, empty name
C6_Witness ==
    /\ GetDone
    /\ call.kind = "namespace"
    /\ call.name = ""
    /\ ret.err.prefix = "invalid namespace name"
    /\ calls = <<>>


(***************************************************************************)
(* Properties of the composition root, checked under SpecRoot.             *)
(***************************************************************************)
Succeeded(a) == a.err = <<>>
Rejected(a) == a.err = <<ErrAlreadyConfigured>>

\* errors.Is(err, target) on a wrap chain
ErrorsIs(chain, target) == \E i \in 1..Len(chain) : chain[i] = target

\* the root a caller can use: its own, or the one NewK8sClient returned
CallerHoldsRoot ==
    \/ mode = "direct"
    \/ mode = "new" /\ rootPc = "done" /\ ~newRet.isNil

FacadesOf(c, h) ==
    c.pods = h /\ c.services = h /\ c.deployments = h /\ c.namespaces = h

SomeRejected == \E i \in 1..Len(applied) : Rejected(applied[i])

ConnectionFailed(a) == ~Succeeded(a) /\ ~Rejected(a)

\* C9: when both options are used in one client initialization, the option
\* applied last overrides the configuration of the earlier one: unless its
\* own connection fails, the root's facades are those it built.
C9_LastOptionOverrides ==
    \A i \in 2..Len(applied) :
        (Succeeded(applied[1]) /\ applied[i].opt /= applied[1].opt
         /\ i = Len(applied) /\ ~ConnectionFailed(applied[i]))
            => /\ Succeeded(applied[i])
               /\ client.pods /= 0
               /\ handles[client.pods] = applied[i].opt

\* C10: NewK8sClient applies its options in the order given and stops at
\* the first one that returns an error: it returns a nil client and that
\* error, wrapped, and no later option is applied.
C10_FailFast ==
    mode = "new"
        => /\ Len(applied) = idx
           /\ Len(applied) <= Len(options)
           /\ \A i \in 1..Len(applied) : applied[i].opt = options[i]
           /\ \A i \in 1..(Len(applied) - 1) : Succeeded(applied[i])
           /\ (applied /= <<>> /\ ~Succeeded(applied[Len(applied)]))
                => /\ rootPc = "done"
                   /\ newRet.isNil
                   /\ newRet.err = <<"failed to configure k8s client">>
                                       \o applied[Len(applied)].err
           /\ (rootPc = "done" /\ newRet.err = <<>>) => Len(applied) = Len(options)

\* three options, the first fails to load its credentials: the other two are not applied
C10_Witness ==
    /\ mode = "new"
    /\ rootPc = "done"
    /\ Len(options) = 3
    /\ Len(applied) = 1
    /\ applied[1].opt = "WithKubeConfigLoader"
    /\ applied[1].err = <<"failed to init k8s client", "authLoader.Load failed", "cause">>
    /\ newRet.isNil

NewDone == mode = "new" /\ rootPc = "done"

AllSlotsSet(c) ==
    c.pods /= 0 /\ c.services /= 0 /\ c.deployments /= 0 /\ c.namespaces /= 0

\* C11: NewK8sClient returns either an error with a nil client, or no
\* error with a client whose four facade slots are all non-nil: never a
\* partially usable client.  Called with no options it returns an error.
C11_NilOrComplete ==
    NewDone
        => /\ \/ newRet.err /= <<>> /\ newRet.isNil
              \/ newRet.err = <<>> /\ ~newRet.isNil /\ AllSlotsSet(newRet.client)
           /\ options = <<>>
                => /\ newRet.isNil
                   /\ newRet.err = <<"failed to validate k8s client", "required">>

\* NewK8sClient() with no options: nothing installed, the final validation fails
C11_Witness ==
    /\ NewDone
    /\ options = <<>>
    /\ applied = <<>>
    /\ newRet.isNil
    /\ newRet.err[1] = "failed to validate k8s client"

\* the applications that produced a handle, in order
RECURSIVE SucceededOpts(_)
SucceededOpts(as) ==
    IF as = <<>> THEN <<>>
    ELSE IF as[1].err = <<>> THEN <<as[1].opt>> \o SucceededOpts(Tail(as))
    ELSE SucceededOpts(Tail(as))

\* C12: after each option application the four facade slots of the root
\* are either all unset or all set, and when set all four were built from
\* the one handle that a single connection strategy invocation produced.
C12_SlotsAllOrNothing ==
    /\ \/ client = EmptyClient
       \/ \E h \in 1..Len(handles) : FacadesOf(client, h)
    /\ handles = SucceededOpts(applied)
    /\ \A i \in 1..Len(applied) :
         Succeeded(applied[i]) => stages[i] /= <<>>
    /\ client = EmptyClient <=> handles = <<>>

\* a failed option left the slots unset, the next one set all four from its handle
C12_Witness ==
    /\ mode = "direct"
    /\ Len(applied) = 2
    /\ ConnectionFailed(applied[1])
    /\ Succeeded(applied[2])
    /\ handles = <<applied[2].opt>>
    /\ FacadesOf(client, 1)

(***************************************************************************)
(* Properties of the list requests, checked under Spec.                    *)
(***************************************************************************)
ListRequests == {i \in 1..Len(calls) : calls[i].op = "List"}

C14_OnlyCursorChanges ==
    \A i \in ListRequests :
        /\ calls[i] = [calls[1] EXCEPT !.opts.Continue = calls[i].opts.Continue]
        /\ calls[i].kind = call.kind
        /\ calls[i].namespace = (IF call.kind = "namespace" THEN "" ELSE call.namespace)
        /\ calls[i].opts.LabelSelector
             = (IF call.selKind = "label" THEN call.selector ELSE "")
        /\ calls[i].opts.FieldSelector
             = (IF call.selKind = "field" THEN call.selector ELSE "")
        /\ calls[i].opts.Limit = call.limit
        /\ calls[i].opts.TimeoutSeconds = calls[1].opts.TimeoutSeconds

\* three page requests that differ in the cursor alone
C14_Witness ==
    /\ call.op = "List"
    /\ call.selKind = "field"
    /\ call.limit = 2
    /\ Len(calls) = 3
    /\ calls[1].opts.Continue = ""
    /\ calls[2].opts.Continue = "c1"
    /\ calls[3].opts.Continue = "c2"
    /\ calls[3].opts.TimeoutSeconds = 1
    /\ calls[3].opts.FieldSelector = "app=test-app"

(***************************************************************************)
(* Properties of the connection strategies, checked under SpecRoot on the  *)
(* strategy invocations the options make.                                  *)
(***************************************************************************)
\* the applications of opt that got past the guard and invoked the strategy
Invoked(opt) ==
    {i \in 1..Len(applied) : applied[i].opt = opt /\ ~Rejected(applied[i])}

StageNames(st) == [i \in 1..Len(st) |-> st[i].stage]

IsPrefixSeq(s, t) == Len(s) <= Len(t) /\ s = SubSeq(t, 1, Len(s))

\* no stage ran after a stage that failed
StoppedAtFirstFailure(st) == \A i \in 1..(Len(st) - 1) : ~st[i].failed

\* the handles the strategy of opt returned, and its invocations whose stages all passed
HandlesOf(opt) == Cardinality({j \in 1..Len(handles) : handles[j] = opt})
AllStagesPassed(opt) ==
    Cardinality({i \in Invoked(opt) : \A k \in 1..Len(stages[i]) : ~stages[i][k].failed})

\* C15: the path-based strategy runs Load, Parse (getRestConfig) and
\* Construct (kubernetes.NewForConfig) in this order and stops at the first
\* stage that fails: it returns no handle and an error whose prefix names
\* that stage and which wraps the stage's error, and runs no later stage.
C15_PathStagesFailFast ==
    /\ \A i \in Invoked("WithKubeConfigLoader") :
         LET st == stages[i]
             e  == applied[i].err
         IN /\ st /= <<>>
            /\ IsPrefixSeq(StageNames(st), <<"authLoader.Load", "getRestConfig",
                                             "kubernetes.NewForConfig">>)
            /\ StoppedAtFirstFailure(st)
            /\ ~st[Len(st)].failed => e = <<>> /\ Len(st) = 3
            /\ st[Len(st)].failed
                 => e = <<"failed to init k8s client",
                          st[Len(st)].stage \o " failed", "cause">>
    /\ HandlesOf("WithKubeConfigLoader") = AllStagesPassed("WithKubeConfigLoader")

\* the three failures of the path-based strategy, one after the other
C15_Witness ==
    /\ mode = "direct"
    /\ Len(applied) = 3
    /\ Invoked("WithKubeConfigLoader") = {1, 2, 3}
    /\ \A i \in 1..3 : Len(stages[i]) = i /\ stages[i][i].failed
    /\ applied[1].err[2] = "authLoader.Load failed"
    /\ applied[2].err[2] = "getRestConfig failed"
    /\ applied[3].err[2] = "kubernetes.NewForConfig failed"
    /\ handles = <<>>

\* C17: the ambient strategy fails fast: when in-cluster discovery fails it
\* returns no handle and an error prefixed "rest.InClusterConfig failed"
\* without invoking the constructor; when discovery succeeds and the
\* construction fails it returns no handle and an error prefixed
\* "kubernetes.NewForConfig failed".
C17_AmbientFailFast ==
    /\ \A i \in Invoked("WithServiceAccount") :
         LET st == stages[i]
             e  == applied[i].err
         IN /\ st /= <<>>
            /\ st[1].stage = "rest.InClusterConfig"
            /\ st[1].failed
                 => /\ Len(st) = 1
                    /\ e = <<"failed to init k8s client with service account",
                             "rest.InClusterConfig failed", "cause">>
            /\ ~st[1].failed
                 => /\ Len(st) = 2
                    /\ st[2].stage = "kubernetes.NewForConfig"
                    /\ st[2].failed
                         => e = <<"failed to init k8s client with service account",
                                  "kubernetes.NewForConfig failed", "cause">>
                    /\ ~st[2].failed => e = <<>>
    /\ HandlesOf("WithServiceAccount") = AllStagesPassed("WithServiceAccount")

\* discovery fails, then discovery succeeds and the construction fails
C17_Witness ==
    /\ mode = "direct"
    /\ Len(applied) = 2
    /\ Invoked("WithServiceAccount") = {1, 2}
    /\ Len(stages[1]) = 1 /\ stages[1][1].failed
    /\ Len(stages[2]) = 2 /\ stages[2][2].failed
    /\ applied[1].err[2] = "rest.InClusterConfig failed"
    /\ applied[2].err[2] = "kubernetes.NewForConfig failed"
    /\ handles = <<>>
    /\ client = EmptyClient

(***************************************************************************)
(* Properties of the kubeconfig loader, checked under SpecLoader.          *)
(***************************************************************************)
PathMissing(p) == p /= "" /\ ~FileSystem(p).exists
PathNotRegular(p) == FileSystem(p).exists /\ FileSystem(p).dir
PathUnreadable(p) ==
    FileSystem(p).exists /\ ~FileSystem(p).dir /\ ~FileSystem(p).readable

ReturnedCancellation ==
    /\ pc = "done"
    /\ ret.value = NilSlice
    /\ ret.err /= NoErr
    /\ ret.err.cause = "context canceled"

\* C18: when the caller's context is cancelled during a get or list call,
\* the transport call in flight is given up, the call returns the
\* cancellation to the caller as an error (wrapped, with no value), and
\* nothing is retried: no request follows the one that was cancelled.
C18_CancellationEndsCall ==
    /\ ctx.cancelled => Len(calls) <= ctx.requests + 1
    /\ (ctx.cancelled /\ Len(calls) = ctx.requests + 1)
          => served[Len(served)].err = "context canceled"
    /\ \A i \in 1..Len(served) :
         served[i].err = "context canceled"
            => /\ i = Len(served)
               /\ Len(calls) = i
               /\ ReturnedCancellation

\* cancelled while the third page was being fetched: two pages are dropped
C18_Witness ==
    /\ call.op = "List"
    /\ ctx = CancelledContext(2)
    /\ Len(calls) = 3
    /\ result.items = <<"a", "b", "a">>
    /\ ReturnedCancellation
    /\ ret.err.prefix = "failed to list deployments in namespace"

(***************************************************************************)
(* Properties of concurrent calls, checked under SpecConc.                 *)
(***************************************************************************)
\* the locals of a call that runs alone and has received the responses rs
RECURSIVE Alone(_, _)
Alone(c, rs) ==
    IF rs = <<>> THEN EnterCall(c)
    ELSE Step(Alone(c, SubSeq(rs, 1, Len(rs) - 1)), rs[Len(rs)])

\* C19: concurrent get and list calls on the same facade do not interfere:
\* the cursor and the accumulator belong to each call, and what a call has
\* sent, accumulated and returned is what it would have sent, accumulated
\* and returned running alone against the same transport responses.
C19_CallsDoNotInterfere ==
    \A c \in Callers :
        conc[c].pc /= "idle" => conc[c] = Alone(conc[c].call, conc[c].served)

\* two listings in progress at once, each on its own cursor and accumulator
C19_Witness ==
    /\ conc[1].pc = "loop" /\ conc[2].pc = "loop"
    /\ conc[1].call.limit = 1 /\ conc[2].call.limit = 2
    /\ conc[1].opts.Continue = "c1" /\ conc[2].opts.Continue = "c2"
    /\ conc[1].result.items = <<"a">> /\ conc[2].result.items = <<"b", "a">>
    /\ conc[2].sent[1].opts.FieldSelector = "app=test-app"

(***************************************************************************)
(* Properties of repeated calls, checked under SpecStore.                  *)
(***************************************************************************)
\* calls i and j are the same call, both successful, on a data set that did
\* not change from the one to the other
SameCallSameData(i, j) ==
    /\ history[i].call = history[j].call
    /\ history[i].ret.err = NoErr
    /\ history[j].ret.err = NoErr
    /\ \A k \in i..j : history[k].data = history[i].data

\* C20: a successful GetByName or list call repeated against an unchanged
\* backing data set returns the same result as before, whatever other calls
\* were made in between.
C20_RepeatedCallSameResult ==
    \A i \in 1..Len(history) : \A j \in (i + 1)..Len(history) :
        SameCallSameData(i, j) => history[j].ret = history[i].ret

\* a two-page listing, another listing in between, then the first one again
C20_Witness ==
    /\ Len(history) = 3
    /\ SameCallSameData(1, 3)
    /\ history[2].call /= history[1].call
    /\ history[1].call.limit = 1
    /\ history[1].ret.value.items = <<"a", "b">>
    /\ history[3].ret.value.items = <<"a", "b">>

(***************************************************************************)
(* Properties of the results against a backing data set, checked under     *)
(* SpecStore.                                                              *)
(***************************************************************************)
\* the call in progress is a list that passed validation and whose scope and
\* selector no resource of the data set matches
ListMatchingNothing ==
    /\ cur.pc \in {"loop", "done"}
    /\ cur.call.op = "List"
    /\ ListValidate(cur.call.kind, cur.call.selKind, cur.call.namespace,
                    cur.call.selector, cur.call.timeout, cur.call.limit) = NoErr
    /\ \A i \in 1..Len(store) :
         ~(/\ store[i].namespace = cur.call.namespace
           /\ store[i].app = "test-app")

\* C21: a valid list call whose selector matches nothing succeeds with a
\* result of length zero and no error, after exactly one transport call
\* (the transport answering that call).
C21_EmptyResultIsSuccess ==
    (ListMatchingNothing /\ cur.served /= <<>> /\ cur.served[1].err = "")
        => /\ cur.pc = "done"
           /\ cur.ret.err = NoErr
           /\ Len(cur.ret.value.items) = 0
           /\ Len(cur.sent) = 1
           /\ Len(cur.served) = 1

\* the data set holds one resource of another label: one request, nothing returned
C21_Witness ==
    /\ ListMatchingNothing
    /\ Len(store) = 1
    /\ cur.pc = "done"
    /\ cur.served = <<PageResponse(<<>>, "")>>
    /\ cur.ret = [value |-> NilSlice, err |-> NoErr]
    /\ cur.sent[1].opts.LabelSelector = "app=test-app"

(***************************************************************************)
(* Properties of validation and of get failures, checked under Spec.       *)
(***************************************************************************)
\* C22: an empty selector string is a validation error for each of the
\* four kinds and for both selector grammars whenever the other inputs are
\* valid: the list call returns "invalid label selector" or "invalid field
\* selector" with no value and sends nothing to the transport.
C22_EmptySelectorRejected ==
    (call.op = "List" /\ call.selector = ""
     /\ ScopeValid(call) /\ TimeoutValid(call) /\ LimitValid(call))
        => /\ pc = "done"
           /\ ret.value = NilSlice
           /\ ret.err.prefix = (IF call.selKind = "label" THEN "invalid label selector"
                                ELSE "invalid field selector")
           /\ ret.err.cause = "required"
           /\ calls = <<>>

\* the cluster-wide kind listed by field with an empty selector
C22_Witness ==
    /\ ListDone
    /\ call.kind = "namespace"
    /\ call.selKind = "field"
    /\ call.selector = ""
    /\ call.timeout = 1500
    /\ call.limit = 2
    /\ ret.err.prefix = "invalid field selector"

\* the call was refused by validation: it returned an error before any request
RefusedByValidation == pc = "done" /\ ret.err /= NoErr /\ calls = <<>>

\* the value of the field that a validation message names is invalid
NamedFieldInvalid(c, prefix) ==
    CASE prefix = "invalid namespace" -> c.kind /= "namespace" /\ c.namespace = ""
      [] prefix = "invalid " \o c.kind \o " name" -> c.op = "Get" /\ c.name = ""
      [] prefix = "invalid timeout" -> c.op = "List" /\ c.timeout < 1000
      [] prefix = "invalid limit" -> c.op = "List" /\ c.limit <= 0
      [] prefix = "invalid label selector" ->
            c.op = "List" /\ c.selKind = "label" /\ c.selector /= "app=test-app"
      [] prefix = "invalid field selector" ->
            c.op = "List" /\ c.selKind = "field" /\ c.selector /= "app=test-app"
      [] OTHER -> FALSE

\* C23: the message of every validation failure is one of "invalid
\* namespace", "invalid <kind> name", "invalid timeout", "invalid limit",
\* "invalid label selector", "invalid field selector", and the field it
\* names is the one whose check failed: never a field whose value was valid.
C23_MessageNamesFailedField ==
    RefusedByValidation => NamedFieldInvalid(call, ret.err.prefix)

\* a list by field with an invalid selector and everything else valid
C23_Witness ==
    /\ RefusedByValidation
    /\ call.op = "List"
    /\ call.selKind = "field"
    /\ call.selector = "invalid@sel"
    /\ call.namespace = "test-namespace" /\ call.timeout = 1000 /\ call.limit = 1
    /\ ret.err.prefix = "invalid field selector"

\* C24: when the transport's get fails (not found or any transport error),
\* GetByName returns a nil record and an error that wraps the transport's
\* error under a prefix naming the operation with the requested name and
\* scope, after exactly one transport call.
C24_GetFailureWrapped ==
    (GetDone /\ served /= <<>> /\ served[1].err /= "")
        => /\ ret.value = NilSlice
           /\ ret.err.cause = served[1].err
           /\ ret.err.prefix = (IF call.kind = "namespace" THEN "failed to get namespace"
                                ELSE "failed to get " \o call.kind \o " in namespace")
           /\ ret.err.args = (IF call.kind = "namespace" THEN <<call.name>>
                              ELSE <<call.name, call.namespace>>)
           /\ Len(calls) = 1
           /\ Len(served) = 1
           /\ calls[1].op = "Get" /\ calls[1].name = call.name

\* a deployment that does not exist
C24_Witness ==
    /\ GetDone
    /\ call.kind = "deployment"
    /\ served = <<ErrResponse("not found")>>
    /\ ret.err.cause = "not found"
    /\ ret.err.args = <<"test-name", "test-namespace">>
    /\ ret.value = NilSlice

\* C29: every list request a facade sends carries a limit of at least 1
\* and timeout-seconds of at least 1: validation admits only timeouts of
\* one second or more, which truncation cannot bring down to zero.
C29_LimitAndTimeoutPositive ==
    \A i \in ListRequests :
        /\ calls[i].opts.Limit >= 1
        /\ calls[i].opts.TimeoutSeconds >= 1
        /\ call.timeout >= 1000

\* the smallest timeout and limit validation admits, on the third page request
C29_Witness ==
    /\ call.op = "List"
    /\ call.timeout = 1000
    /\ call.limit = 1
    /\ Len(calls) = 3
    /\ calls[3].opts.Limit = 1
    /\ calls[3].opts.TimeoutSeconds = 1

\* the names of the resources of the data set in the scope that carry the label
MatchingNames(data, namespace) ==
    {data[i].name : i \in {k \in 1..Len(data) : /\ data[k].namespace = namespace
                                                 /\ data[k].app = "test-app"}}

ListByLabelSucceeded ==
    /\ cur.pc = "done"
    /\ cur.call.op = "List"
    /\ cur.call.selKind = "label"
    /\ cur.ret.err = NoErr

\* C25: for any limit >= 1 a list by label selector returns exactly the
\* records of the scope that match the selector, each once and no other
\* (of two matching and one non-matching record the two matching ones, in
\* one page when the limit is 2 or more); the result does not depend on
\* the limit.
C25_ExactlyTheMatching ==
    ListByLabelSucceeded
        => LET items == cur.ret.value.items
               want  == MatchingNames(store, cur.call.namespace)
           IN /\ {items[k] : k \in 1..Len(items)} = want
              /\ Len(items) = Cardinality(want)
              /\ (Cardinality(want) = 2 /\ cur.call.limit >= 2) => Len(cur.sent) = 1
              /\ Len(cur.sent) >= 1

\* two matching records and one that does not match, limit 2: one page, two records
C25_Witness ==
    /\ ListByLabelSucceeded
    /\ Len(store) = 3
    /\ cur.call.limit = 2
    /\ Len(cur.sent) = 1
    /\ cur.ret.value.items = <<"a", "b">>

(***************************************************************************)
(* Termination of the pagination loop, checked under SpecLive: the         *)
(* transport of Spec answers with an empty cursor or an error after        *)
(* MaxPages pages at the latest.                                           *)
(***************************************************************************)
LastServed == served[Len(served)]

\* the loop is left only on a response with an error or with no cursor
ExitOnlyOnErrorOrEmptyCursor ==
    (pc = "loop" /\ pc' = "done")
        => /\ Len(served') = Len(served) + 1
           /\ \/ served'[Len(served')].err /= "" /\ ret'.err /= NoErr
              \/ /\ served'[Len(served')].err = ""
                 /\ served'[Len(served')].continue = ""
                 /\ ret'.err = NoErr

\* C26: under a transport that answers with an empty cursor or an error
\* after finitely many pages, every list call eventually returns to its
\* caller, and the pagination loop is left in two ways only: on an empty
\* cursor, with success, and on a transport error, with failure.
C26_ListTerminates ==
    /\ (pc = "loop") ~> (pc = "done")
    /\ [][ExitOnlyOnErrorOrEmptyCursor]_vars

\* a listing that returned after as many pages as the transport gives
C26_Witness ==
    /\ ListDone
    /\ Len(served) = MaxPages
    /\ LastServed.err = ""
    /\ LastServed.continue = ""
    /\ \A i \in 1..(MaxPages - 1) : served[i].continue /= ""
    /\ ret.err = NoErr

(***************************************************************************)
(* The loop without a page cap, checked under SpecEndless.                 *)
(***************************************************************************)
\* C27: the pagination loop has no page cap and does not detect a repeated
\* cursor: while the transport returns a non-empty cursor on every page
\* (the one it was just given, for instance) the list call has not
\* returned, it has accumulated every page, and it sends the next request
\* with the cursor it got, however many it has sent already.
C27_NoPageCap ==
    cur.pc /= "idle"
        => /\ cur.pc = "loop"
           /\ cur.ret = NoRet
           /\ Len(cur.sent) = Len(cur.served)
           /\ cur.result.items = ConcatItems(cur.served)
           /\ cur.served /= <<>>
                => cur.opts.Continue = cur.served[Len(cur.served)].continue
           /\ Len(cur.sent) < MaxEndlessPages => ENABLED EndlessTransportCall

\* the same cursor three times over: the call is still in its loop
C27_Witness ==
    /\ cur.pc = "loop"
    /\ Len(cur.sent) = 3
    /\ \A i \in 1..3 : cur.served[i].continue = "c1"
    /\ cur.sent[2].opts.Continue = "c1" /\ cur.sent[3].opts.Continue = "c1"
    /\ Len(cur.result.items) >= 3

(***************************************************************************)
(* The guard of the options, checked under SpecRoot.                       *)
(***************************************************************************)
\* the step applies an option that is rejected as already configured
RejectingStep ==
    /\ Len(applied') = Len(applied) + 1
    /\ Rejected(applied'[Len(applied')])

C30_FirstOptionNotRejected ==
    /\ applied /= <<>> => ~Rejected(applied[1])
    /\ \A i \in 1..Len(applied) :
         Rejected(applied[i]) <=> \E j \in 1..(i - 1) : Succeeded(applied[j])
    /\ (NewDone /\ Len(options) = 1 /\ \A k \in 1..Len(stages[1]) : ~stages[1][k].failed)
          => /\ newRet.err = <<>>
             /\ ~newRet.isNil
             /\ FacadesOf(newRet.client, 1)

\* NewK8sClient(WithServiceAccount()) in a cluster: the client is returned
C30_Witness ==
    /\ NewDone
    /\ options = <<"WithServiceAccount">>
    /\ Len(stages[1]) = 2
    /\ applied[1].err = <<>>
    /\ ~newRet.isNil
    /\ FacadesOf(newRet.client, 1)


====
